---- MODULE Spec2Model ----
\* doby: password-based authenticated streaming encryption (container "DOBY").
\* State machine of the command-line tool (src/main.rs run) over the library
\* (src/lib.rs encrypt / decrypt) and the key schedule and chunk operations
\* (src/crypto.rs).  A chain of runs is modelled: the output of a finished run
\* can be fed, possibly with one byte replaced, to the next run.
EXTENDS Integers, Sequences, FiniteSets, TLC

\* ---------------------------------------------------------------- bounds
\* longest plaintext given to the first run
MaxLen == 6
\* number of runs in a chain (encrypt, force-encrypt, decrypt)
MaxRuns == 3
\* longest plaintext of a container that gets one byte replaced, or that is
\* encrypted a second time
MaxInner == 1
\* longest output that is given to a next run: a container inside a container
MaxFeed == 286

\* length of the ciphertext stream handed to decrypt_chunk call by call
MaxStream == 70

\* ---------------------------------------------------------------- constants
MAGIC_BYTES == <<68, 79, 66, 89>>
SALT_LEN == 64
HASH_LEN == 64
LEN == SALT_LEN + 4*2 + 2

\* values a byte of a container is replaced by (kept below 128 so that a
\* big-endian u32 read back from the header stays within 32-bit signed integers)
TamperValues == {0, 2}
\* block sizes given with -b: smaller than the peeked bytes, equal to them,
\* the tag length, the smallest size above it, and one that holds any input
BlockSizes == {3, 4, 64, 65, 400}
\* sizes a reader that splits its data may return instead of a full read
ShortReads == {2}
Passwords == {1, 2}
SaltSeeds == {10}
\* -t/-m/-p given on the command line: the defaults scaled down, the smallest
\* accepted tuple, and the rejected tuples of tests/cli.rs argon2_params
CostChoices == {<<10, 4096, 4>>, <<1, 8, 1>>, <<0, 4096, 4>>, <<10, 0, 4>>, <<10, 4096, 0>>}
\* the command lines drawn: every block size with the default costs, and for
\* the first run of a chain the other cost tuples with the block size that
\* holds any input
CliChoices(first) ==
    {c \in CostChoices \X BlockSizes : c[1] = <<10, 4096, 4>> \/ (first /\ c[2] = 400)}

\* ---------------------------------------------------------------- helpers
Min(a, b) == IF a < b THEN a ELSE b

RECURSIVE Xor(_, _)
Xor(a, b) ==
    IF a = 0 /\ b = 0 THEN 0
    ELSE (((a % 2) + (b % 2)) % 2) + 2 * Xor(a \div 2, b \div 2)

\* sum of w(i) * s[i] over lo..hi, modulo 256, by halving the range
RECURSIVE SumRange(_, _, _, _)
SumRange(s, lo, hi, weighted) ==
    IF lo > hi THEN 0
    ELSE IF lo = hi THEN ((IF weighted THEN lo ELSE 1) * s[lo]) % 256
    ELSE LET mid == (lo + hi) \div 2 IN
         (SumRange(s, lo, mid, weighted) + SumRange(s, mid + 1, hi, weighted)) % 256

SumSeq(s) == SumRange(s, 1, Len(s), FALSE)
WSum(s) == SumRange(s, 1, Len(s), TRUE)

Zeros(k) == [i \in 1..k |-> 0]

\* u32::to_be_bytes / u32::from_be_bytes
to_be_bytes(x) ==
    << (x \div 16777216) % 256, (x \div 65536) % 256, (x \div 256) % 256, x % 256 >>
\* variant: the four bytes are read least significant first
from_le_bytes(b) == b[4] * 16777216 + b[3] * 65536 + b[2] * 256 + b[1]

from_be_bytes(b) == b[1] * 16777216 + b[2] * 65536 + b[3] * 256 + b[4]

\* argon2::Params::new(m_cost, t_cost, p_cost, None): Ok or Err
ArgonParamsOk(t, m, p) == t >= 1 /\ p >= 1 /\ m >= 8 * p

\* CipherAlgorithm::try_from(u8)
CipherFromByte(b) == b \in {0, 1}

Salt(seed) == [i \in 1..SALT_LEN |-> (seed + i) % 256]

\* EncryptionParams::write: salt, t_cost and m_cost as big-endian u32,
\* parallelism as one byte (u8), the cipher id as one byte
ParamsWrite(p) ==
    p.salt \o to_be_bytes(p.t_cost) \o to_be_bytes(p.m_cost) \o <<p.parallelism>> \o <<p.cipher>>

NoParams == [some |-> FALSE, salt |-> <<>>, t_cost |-> 0, m_cost |-> 0, parallelism |-> 0, cipher |-> 0]

\* EncryptionParams::read on exactly LEN bytes: None on an unknown cipher id,
\* otherwise the fields (the cost tuple is not validated here)
ParamsRead(b) ==
    IF CipherFromByte(b[SALT_LEN + 10])
    THEN [some |-> TRUE,
          salt |-> SubSeq(b, 1, SALT_LEN),
          t_cost |-> from_be_bytes(SubSeq(b, SALT_LEN + 1, SALT_LEN + 4)),
          m_cost |-> from_be_bytes(SubSeq(b, SALT_LEN + 5, SALT_LEN + 8)),
          parallelism |-> b[SALT_LEN + 9],
          cipher |-> b[SALT_LEN + 10]]
    ELSE NoParams

\* Zeroize::zeroize of a buffer
zeroize(v) == 0

\* Argon2id(password, salt, costs) -> master key; keys are abstract numbers
Argon2(password, p) ==
    (31 * password + SumSeq(p.salt) + 3 * (p.t_cost % 251) + 5 * (p.m_cost % 251)
       + 7 * p.parallelism) % 251

\* Hkdf::new(Some(salt), master_key).expand(info): info 1 = "doby_nonce",
\* 2 = "doby_encryption_key", 3 = "doby_authentication_key"
HkdfExpand(master, salt, info) == (master * 3 + SumSeq(salt) + 41 * info) % 251

\* byte i (from 0) of the keystream of the cipher `kind` under key and nonce
Keystream(key, nonce, kind, i) ==
    (7 * key + 13 * nonce + 101 * kind + 3 * ((i * i) % 256) + 17 * i + 1) % 256

\* Hmac::finalize: the tag of the absorbed bytes under the authentication key.
\* Byte 1 separates inputs that differ in one byte, byte 2 in length, byte 3
\* in order; the remaining bytes carry the key.
Tag(akey, data) ==
    [i \in 1..HASH_LEN |->
        IF i = 1 THEN SumSeq(data)
        ELSE IF i = 2 THEN Len(data) % 256
        ELSE IF i = 3 THEN WSum(data)
        ELSE (akey + i) % 256]

NoCipher == [key |-> 0, nonce |-> 0, kind |-> 0, pos |-> 0, akey |-> 0, data |-> <<>>, buffer |-> <<>>]

\* variant: the authenticator is not fed the serialized parameters
HeaderNotAbsorbed(params) == <<>>

\* hmac.update(&encoded_params) in DobyCipher::new: the bytes the
\* authenticator absorbs before any ciphertext
DobyCipherNewAbsorbed(params) == ParamsWrite(params)

\* DobyCipher::new on a valid cost tuple: master key, three sub-keys, the
\* authenticator pre-fed with the serialized parameters
DobyCipherNew(password, params) ==
    LET master == Argon2(password, params) IN
    [key |-> HkdfExpand(master, params.salt, 2),
     nonce |-> HkdfExpand(master, params.salt, 1),
     kind |-> params.cipher,
     pos |-> 0,
     akey |-> HkdfExpand(master, params.salt, 3),
     data |-> DobyCipherNewAbsorbed(params),
     buffer |-> <<>>]

\* the key buffers of DobyCipher::new when it returns Ok: master_key,
\* authentication_key and encryption_key are zeroized once they were used
DobyCipherNewKeys(password, params) ==
    LET master == Argon2(password, params) IN
    [master_key |-> zeroize(master),
     encryption_key |-> zeroize(HkdfExpand(master, params.salt, 2)),
     authentication_key |-> zeroize(HkdfExpand(master, params.salt, 3))]

\* StreamCipher::apply_keystream over a chunk starting at keystream offset pos
apply_keystream(c, bytes) ==
    [i \in 1..Len(bytes) |-> Xor(bytes[i], Keystream(c.key, c.nonce, c.kind, c.pos + i - 1))]

\* variant: every chunk is enciphered from the start of the keystream
encrypt_chunk_restart(c, bytes) ==
    LET ct == apply_keystream([c EXCEPT !.pos = 0], bytes) IN
    [cipher |-> [c EXCEPT !.pos = c.pos + Len(bytes), !.data = c.data \o ct],
     bytes |-> ct]

\* DobyCipher::encrypt_chunk: keystream, then hmac.update, then the bytes to write
encrypt_chunk(c, bytes) ==
    LET ct == apply_keystream(c, bytes) IN
    [cipher |-> [c EXCEPT !.pos = c.pos + Len(bytes), !.data = c.data \o ct],
     bytes |-> ct]

\* variant: the authenticator absorbs the bytes after the keystream was applied
decrypt_chunk_hmac_after(c, new) ==
    LET buffer_len == Len(c.buffer)
        buff == c.buffer \o new
        read == Len(new)
        n == IF buffer_len + read >= HASH_LEN THEN buffer_len + read - HASH_LEN ELSE 0
        kept == IF buffer_len + read >= HASH_LEN THEN <<>> ELSE c.buffer
        plain == apply_keystream(c, SubSeq(buff, 1, n))
    IN
    [cipher |-> [c EXCEPT !.buffer = kept \o SubSeq(buff, n + 1, buffer_len + read),
                          !.data = c.data \o plain,
                          !.pos = c.pos + n],
     n |-> n,
     bytes |-> plain]

\* DobyCipher::decrypt_chunk after reader.read returned `new` into
\* buff[buffer_len..]: n, the look-behind buffer, hmac.update, keystream
decrypt_chunk(c, new) ==
    LET buffer_len == Len(c.buffer)
        buff == c.buffer \o new
        read == Len(new)
        n == IF buffer_len + read >= HASH_LEN THEN buffer_len + read - HASH_LEN ELSE 0
        kept == IF buffer_len + read >= HASH_LEN THEN <<>> ELSE c.buffer
        confirmed == SubSeq(buff, 1, n)
    IN
    [cipher |-> [c EXCEPT !.buffer = kept \o SubSeq(buff, n + 1, buffer_len + read),
                          !.data = c.data \o confirmed,
                          !.pos = c.pos + n],
     n |-> n,
     bytes |-> apply_keystream(c, confirmed)]

\* DobyCipher::verify_hmac
verify_hmac(c) == c.buffer = Tag(c.akey, c.data)

\* ---------------------------------------------------------------- state
VARIABLES
    pc,          \* position of run(): parse, peek, readHeader, newParams,
                 \* getPassword, openWriter, newCipher, encrypt, encLoop,
                 \* writeHmac, decLoop, verify, done
    runs,        \* index of the current run in the chain
    hist,        \* finished runs of the chain: input, branch, password entered,
                 \* whether the block size was above HASH_LEN, parameters
    tamperedAt,  \* offset of the byte replaced in the current input, -1 if none
    input,       \* bytes of the input stream
    rpos,        \* bytes of it consumed so far
    splitSeen,   \* some read of this run returned fewer bytes than it could
    parsed,      \* what cli::parse returned: "none" yet, "error" (None), "exited", "args"
    args,        \* CliArgs: force_encrypt, block_size, argon2_params
    magic_bytes, \* the 4-byte peek buffer
    n,           \* bytes the peek read returned
    params,      \* EncryptionParams in use (some = FALSE: none)
    password,    \* Option<String>: some, the bytes it holds now, the password entered
    out,         \* bytes the output sink has received
    outTouched,  \* the output sink was created, truncated or written
    cipher,      \* DobyCipher: stream cipher position, hmac input, look-behind buffer
    branch,      \* "none", "decrypt" or "encrypt": the branch run() took
    kdfCalls,    \* invocations of Argon2 in this run
    verified,    \* result of decrypt: "none", "true", "false"
    exitCode,    \* -1 while running, then the process exit code
    room,        \* bytes the writer still accepts, -1 when it takes any number
    keybufs      \* master_key, encryption_key and authentication_key of
                 \* DobyCipher::new as they are when it returns

vars == <<pc, runs, hist, tamperedAt, input, rpos, splitSeen, parsed, args, magic_bytes, n,
          params, password, out, outTouched, cipher, branch, kdfCalls, verified, exitCode,
          room, keybufs>>

NoArgs == [force_encrypt |-> FALSE, block_size |-> 0, t_cost |-> 0, m_cost |-> 0, p_cost |-> 0]
NoPassword == [some |-> FALSE, value |-> 0, entered |-> 0]
\* [0; KEY_LEN] for each key buffer
NoKeys == [master_key |-> 0, encryption_key |-> 0, authentication_key |-> 0]

\* plaintexts of the first run: distinct bytes, so that a lost, repeated or
\* reordered byte shows
Plain(k) == [i \in 1..k |-> 10 + i]
\* a stream with the magic bytes and a well-formed header, followed by
\* HASH_LEN bytes that are no valid tag
Forged ==
    MAGIC_BYTES
      \o ParamsWrite([some |-> TRUE, salt |-> Salt(10), t_cost |-> 10, m_cost |-> 4096,
                        parallelism |-> 4, cipher |-> 0])
      \o Zeros(HASH_LEN)
\* inputs that start with the magic bytes: too short for a header, or Forged
Junk == {MAGIC_BYTES, MAGIC_BYTES \o <<1, 2, 3>>, Forged}
Inputs == {Plain(k) : k \in 0..MaxLen} \cup Junk

FreshRun ==
    /\ pc = "parse"
    /\ rpos = 0
    /\ splitSeen = FALSE
    /\ parsed = "none"
    /\ args = NoArgs
    /\ magic_bytes = Zeros(Len(MAGIC_BYTES))
    /\ n = 0
    /\ params = NoParams
    /\ password = NoPassword
    /\ out = <<>>
    /\ outTouched = FALSE
    /\ cipher = NoCipher
    /\ branch = "none"
    /\ kdfCalls = 0
    /\ verified = "none"
    /\ exitCode = -1
    /\ room = -1
    /\ keybufs = NoKeys

Init ==
    /\ runs = 1
    /\ hist = <<>>
    /\ tamperedAt = -1
    /\ input \in Inputs
    /\ FreshRun

\* how a panic ends the process: unwinding (status 101, the buffered writer
\* is flushed when it is dropped) or abort (status 134, nothing is flushed),
\* as the build profile has it
PanicCodes == {101, 134}

\* the process ends: run() returned (exit 0 or 1) or a panic ended it
Exit(code) ==
    /\ pc' = "done"
    /\ exitCode' = code

\* values reader.read may return for a buffer of `want` bytes: all it can
\* give, or fewer when the underlying stream delivers its data in pieces
\* (a pipe).  The first run of a chain reads such a stream, with at most one
\* short read; later runs read the file the previous run wrote.
ReadCounts(want) ==
    LET full == Min(want, Len(input) - rpos) IN
    {full} \cup (IF splitSeen \/ runs > 1 THEN {} ELSE {k \in ShortReads : k < full})

Avail(k) == SubSeq(input, rpos + 1, rpos + k)

\* ---------------------------------------------------------------- cli::parse
\* cli::parse: a numeric flag that does not parse or a cost tuple that
\* argon2::Params::new rejects gives None; a declined overwrite prompt gives
\* ParseResult::exited(); otherwise the arguments
Parse ==
    /\ pc = "parse"
    /\ \E numbers_ok \in BOOLEAN, cli \in CliChoices(runs = 1), declined \in BOOLEAN, force \in BOOLEAN :
          LET costs == cli[1]
              bs == cli[2]
          IN
          /\ tamperedAt >= 0 => ~force
          /\ IF ~numbers_ok \/ ~ArgonParamsOk(costs[1], costs[2], costs[3])
             THEN /\ Exit(1)
                  /\ parsed' = "error"
                  /\ UNCHANGED args
             ELSE IF declined
             THEN /\ Exit(0)
                  /\ parsed' = "exited"
                  /\ UNCHANGED args
             ELSE /\ pc' = "peek"
                  /\ parsed' = "args"
                  /\ args' = [force_encrypt |-> force, block_size |-> bs,
                              t_cost |-> costs[1], m_cost |-> costs[2], p_cost |-> costs[3]]
                  /\ UNCHANGED exitCode
    /\ UNCHANGED <<runs, hist, room, keybufs, tamperedAt, input, rpos, splitSeen, magic_bytes, n, params,
                   password, out, outTouched, cipher, branch, kdfCalls, verified>>

\* ---------------------------------------------------------------- main.rs run
\* variant: the first byte of the peek buffer is not compared
IsMagicTail(mb) == SubSeq(mb, 2, 4) = SubSeq(MAGIC_BYTES, 2, 4)

\* magic_bytes == MAGIC_BYTES
IsMagic(mb) == mb = MAGIC_BYTES

\* reader.read(&mut magic_bytes) and the branch on the magic bytes and -f
Peek ==
    /\ pc = "peek"
    /\ \E k \in ReadCounts(Len(MAGIC_BYTES)) :
          LET mb == Avail(k) \o Zeros(Len(MAGIC_BYTES) - k) IN
          /\ magic_bytes' = mb
          /\ n' = k
          /\ rpos' = rpos + k
          /\ splitSeen' = (k < Min(Len(MAGIC_BYTES), Len(input) - rpos))
          /\ IF IsMagic(mb) /\ ~args.force_encrypt
             THEN pc' = "readHeader" /\ branch' = "decrypt"
             ELSE pc' = "newParams" /\ branch' = "encrypt"
    /\ UNCHANGED <<runs, hist, room, keybufs, tamperedAt, input, parsed, args, params, password, out, outTouched,
                   cipher, kdfCalls, verified, exitCode>>

\* a read on the input fails: every Err arm of run() prints and leaves
\* success false (the stream of the first run of a chain)
ReadError ==
    /\ pc \in {"peek", "encrypt", "encLoop", "decLoop"}
    /\ runs = 1
    /\ Exit(1)
    /\ UNCHANGED <<runs, hist, room, keybufs, tamperedAt, input, rpos, splitSeen, parsed, args, magic_bytes, n, params,
                   password, out, outTouched, cipher, branch, kdfCalls, verified>>

\* EncryptionParams::read(&mut reader): read_exact of LEN bytes (a short read
\* is an I/O error), None on an unknown cipher id
ReadHeader ==
    /\ pc = "readHeader"
    /\ IF Len(input) - rpos < LEN
       THEN /\ Exit(1)
            /\ rpos' = Len(input)
            /\ UNCHANGED params
       ELSE LET p == ParamsRead(Avail(LEN)) IN
            /\ rpos' = rpos + LEN
            /\ params' = p
            /\ IF p.some
               THEN pc' = "getPassword" /\ UNCHANGED exitCode
               ELSE Exit(1)
    /\ UNCHANGED <<runs, hist, room, keybufs, tamperedAt, input, splitSeen, parsed, args, magic_bytes, n,
                   password, out, outTouched, cipher, branch, kdfCalls, verified>>

\* EncryptionParams::new(cli_args.argon2_params, cli_args.cipher): a fresh
\* salt from OsRng; the cipher is the one chosen with -c or by aes_ni
NewParams ==
    /\ pc = "newParams"
    /\ \E seed \in SaltSeeds, kind \in {0, 1} :
          params' = [some |-> TRUE, salt |-> Salt(seed), t_cost |-> args.t_cost,
                     m_cost |-> args.m_cost, parallelism |-> args.p_cost, cipher |-> kind]
    /\ pc' = "getPassword"
    /\ UNCHANGED <<runs, hist, room, keybufs, tamperedAt, input, rpos, splitSeen, parsed, args, magic_bytes, n,
                   password, out, outTouched, cipher, branch, kdfCalls, verified, exitCode>>

\* cli_args.password.get(ask_confirm): the --password value, or the terminal
\* prompt, asked a second time when encrypting.  None when the first prompt
\* cannot be read; when the second cannot be read (the first String is
\* dropped as it is); when the two differ (both zeroized).
GetPassword ==
    /\ pc = "getPassword"
    /\ \/ \E pw \in Passwords :
            /\ tamperedAt >= 0 => pw = hist[1].password
            /\ password' = [some |-> TRUE, value |-> pw, entered |-> pw]
            /\ pc' = "openWriter"
            /\ UNCHANGED exitCode
       \/ /\ Exit(1)
          /\ UNCHANGED password
       \/ /\ branch = "encrypt"
          /\ \E pw \in Passwords, confirm_read \in BOOLEAN :
                password' = [some |-> FALSE, value |-> IF confirm_read THEN zeroize(pw) ELSE pw,
                             entered |-> 0]
          /\ Exit(1)
    /\ UNCHANGED <<runs, hist, room, keybufs, tamperedAt, input, rpos, splitSeen, parsed, args, magic_bytes, n, params,
                   out, outTouched, cipher, branch, kdfCalls, verified>>

\* cli_args.writer.into_buf_writer(): opens (creates, truncates) the output
\* path or wraps stdout; None when the path cannot be opened
OpenWriter ==
    /\ pc = "openWriter"
    /\ \/ /\ outTouched' = TRUE
          /\ pc' = "newCipher"
          /\ UNCHANGED <<password, exitCode>>
       \/ /\ password' = [password EXCEPT !.value = zeroize(password.value)]
          /\ Exit(1)
          /\ UNCHANGED outTouched
    /\ UNCHANGED <<runs, hist, room, keybufs, tamperedAt, input, rpos, splitSeen, parsed, args, magic_bytes, n, params,
                   out, cipher, branch, kdfCalls, verified>>

\* DobyCipher::new(password, &params), then password.zeroize().  A cost
\* tuple argon2 rejects gives Err before the KDF runs, and the KDF itself may
\* fail (no key is produced); run() then has no cipher and ends without
\* success.
NewCipher ==
    /\ pc = "newCipher"
    /\ password' = [password EXCEPT !.value = zeroize(password.value)]
    /\ IF ArgonParamsOk(params.t_cost, params.m_cost, params.parallelism)
       THEN \/ /\ cipher' = DobyCipherNew(password.value, params)
               /\ keybufs' = DobyCipherNewKeys(password.value, params)
               /\ kdfCalls' = kdfCalls + 1
               /\ pc' = IF branch = "encrypt" THEN "encrypt" ELSE "decLoop"
               /\ UNCHANGED exitCode
            \/ /\ kdfCalls' = kdfCalls + 1
               /\ Exit(1)
               /\ UNCHANGED <<cipher, keybufs>>
       ELSE /\ Exit(1)
            /\ UNCHANGED <<cipher, kdfCalls, keybufs>>
    /\ UNCHANGED <<runs, hist, room, tamperedAt, input, rpos, splitSeen, parsed, args, magic_bytes, n, params,
                   out, outTouched, branch, verified>>

\* ---------------------------------------------------------------- the writer
\* Write::write(bytes) on a writer with `r` bytes of room: the bytes taken
Accepted(bytes, r) == IF r < 0 THEN bytes ELSE SubSeq(bytes, 1, Min(Len(bytes), r))
\* the room left after it
RoomAfter(bytes, r) == IF r < 0 THEN r ELSE r - Len(Accepted(bytes, r))
\* Write::write_all(bytes): Ok when every byte was taken, else the error
\* WriteZero after the bytes that fitted
write_all_ok(bytes, r) == Len(Accepted(bytes, r)) = Len(bytes)

\* ---------------------------------------------------------------- lib.rs encrypt
\* encrypt up to the carry-over chunk: magic bytes, header, the buffer of
\* block_size bytes, already_read copied to its start (a panic when the
\* buffer is shorter), one read into the rest, encrypt_chunk of both
EncryptStart ==
    /\ pc = "encrypt"
    /\ LET already_read == SubSeq(magic_bytes, 1, n)
           head == MAGIC_BYTES \o ParamsWrite(params)
       IN
       IF ~write_all_ok(head, room)
       THEN /\ out' = out \o Accepted(head, room)
            /\ room' = RoomAfter(head, room)
            /\ Exit(1)
            /\ UNCHANGED <<rpos, splitSeen, cipher>>
       ELSE IF args.block_size < Len(already_read)
       THEN \E code \in PanicCodes :
               /\ out' = (IF code = 101 THEN out \o head ELSE out)
               /\ room' = (IF code = 101 THEN RoomAfter(head, room) ELSE room)
               /\ Exit(code)
               /\ UNCHANGED <<rpos, splitSeen, cipher>>
       ELSE \E k \in ReadCounts(args.block_size - Len(already_read)) :
               LET r == encrypt_chunk(cipher, already_read \o Avail(k))
                   left == RoomAfter(head, room)
               IN
               /\ rpos' = rpos + k
               /\ splitSeen' = (splitSeen \/ k < Min(args.block_size - Len(already_read), Len(input) - rpos))
               /\ cipher' = r.cipher
               /\ out' = out \o head \o Accepted(r.bytes, left)
               /\ room' = RoomAfter(r.bytes, left)
               /\ IF ~write_all_ok(r.bytes, left)
                  THEN Exit(1)
                  ELSE pc' = (IF k > 0 THEN "encLoop" ELSE "writeHmac") /\ UNCHANGED exitCode
    /\ UNCHANGED <<runs, hist, keybufs, tamperedAt, input, parsed, args, magic_bytes, n, params, password,
                   outTouched, branch, kdfCalls, verified>>

\* one iteration of the loop of encrypt: read a block, stop on 0
EncryptLoop ==
    /\ pc = "encLoop"
    /\ \E k \in ReadCounts(args.block_size) :
          LET r == encrypt_chunk(cipher, Avail(k)) IN
          /\ rpos' = rpos + k
          /\ splitSeen' = (splitSeen \/ k < Min(args.block_size, Len(input) - rpos))
          /\ IF k = 0
             THEN pc' = "writeHmac" /\ UNCHANGED <<cipher, out, room, exitCode>>
             ELSE /\ cipher' = r.cipher
                  /\ out' = out \o Accepted(r.bytes, room)
                  /\ room' = RoomAfter(r.bytes, room)
                  /\ IF write_all_ok(r.bytes, room)
                     THEN pc' = "encLoop" /\ UNCHANGED exitCode
                     ELSE Exit(1)
    /\ UNCHANGED <<runs, hist, keybufs, tamperedAt, input, parsed, args, magic_bytes, n, params, password,
                   outTouched, branch, kdfCalls, verified>>

\* cipher.write_hmac(writer): writer.write(&tag), whose count of bytes taken
\* is not looked at; then Ok(()), and success = true in run()
WriteHmac ==
    /\ pc = "writeHmac"
    /\ LET tag == Tag(cipher.akey, cipher.data) IN
       /\ out' = out \o Accepted(tag, room)
       /\ room' = RoomAfter(tag, room)
    /\ Exit(0)
    /\ UNCHANGED <<runs, hist, keybufs, tamperedAt, input, rpos, splitSeen, parsed, args, magic_bytes, n, params,
                   password, outTouched, cipher, branch, kdfCalls, verified>>

\* ---------------------------------------------------------------- lib.rs decrypt
\* one iteration of the loop of decrypt: decrypt_chunk reads into the buffer
\* behind the look-behind bytes; n = 0 ends the loop, else buff[..n] is written
DecryptLoop ==
    /\ pc = "decLoop"
    /\ \E k \in ReadCounts(args.block_size - Len(cipher.buffer)) :
          LET r == decrypt_chunk(cipher, Avail(k)) IN
          /\ rpos' = rpos + k
          /\ splitSeen' = (splitSeen \/ k < Min(args.block_size - Len(cipher.buffer), Len(input) - rpos))
          /\ cipher' = r.cipher
          /\ IF r.n = 0
             THEN pc' = "verify" /\ UNCHANGED <<out, room, exitCode>>
             ELSE /\ out' = out \o Accepted(r.bytes, room)
                  /\ room' = RoomAfter(r.bytes, room)
                  /\ IF write_all_ok(r.bytes, room)
                     THEN pc' = "decLoop" /\ UNCHANGED exitCode
                     ELSE Exit(1)
    /\ UNCHANGED <<runs, hist, keybufs, tamperedAt, input, parsed, args, magic_bytes, n, params, password,
                   outTouched, branch, kdfCalls, verified>>

\* Ok(cipher.verify_hmac()) and the match on it in run()
Verify ==
    /\ pc = "verify"
    /\ IF verify_hmac(cipher)
       THEN verified' = "true" /\ Exit(0)
       ELSE verified' = "false" /\ Exit(1)
    /\ UNCHANGED <<runs, hist, room, keybufs, tamperedAt, input, rpos, splitSeen, parsed, args, magic_bytes, n, params,
                   password, out, outTouched, cipher, branch, kdfCalls>>

\* ---------------------------------------------------------------- chain of runs
ResetRun ==
    /\ pc' = "parse"
    /\ rpos' = 0
    /\ splitSeen' = FALSE
    /\ parsed' = "none"
    /\ args' = NoArgs
    /\ magic_bytes' = Zeros(Len(MAGIC_BYTES))
    /\ n' = 0
    /\ params' = NoParams
    /\ password' = NoPassword
    /\ out' = <<>>
    /\ outTouched' = FALSE
    /\ cipher' = NoCipher
    /\ branch' = "none"
    /\ kdfCalls' = 0
    /\ verified' = "none"
    /\ exitCode' = -1
    /\ room' = -1
    /\ keybufs' = NoKeys

Finished == [input |-> input, branch |-> branch, password |-> password.entered,
             legal_block |-> (args.block_size > HASH_LEN), params |-> params]

\* the container a successful encrypt run wrote is the input of the next run
Rerun ==
    /\ pc = "done" /\ exitCode = 0 /\ branch = "encrypt"
    /\ runs < MaxRuns
    /\ runs > 1 => Len(hist[1].input) <= MaxInner
    /\ Len(out) <= MaxFeed
    /\ runs' = runs + 1
    /\ hist' = Append(hist, Finished)
    /\ input' = out
    /\ tamperedAt' = -1
    /\ ResetRun

\* the same for a container made with a block size above HASH_LEN, with the
\* byte at one offset replaced by a different value
Tamper ==
    /\ pc = "done" /\ exitCode = 0 /\ branch = "encrypt"
    /\ runs = 1
    /\ args.block_size > HASH_LEN
    /\ \E i \in 0..(Len(out) - 1), v \in TamperValues :
          /\ v # out[i + 1]
          /\ input' = [out EXCEPT ![i + 1] = v]
          /\ tamperedAt' = i
    /\ runs' = runs + 1
    /\ hist' = Append(hist, Finished)
    /\ ResetRun

RunStep ==
    \/ Parse
    \/ Peek
    \/ ReadError
    \/ ReadHeader
    \/ NewParams
    \/ GetPassword
    \/ OpenWriter
    \/ NewCipher
    \/ EncryptStart
    \/ EncryptLoop
    \/ WriteHmac
    \/ DecryptLoop
    \/ Verify

Next == RunStep \/ Rerun

Spec == Init /\ [][Next]_vars

\* an attacker replaces one byte of a small container; the result is given
\* to the tool as a file, without -f and with the password the container was
\* made with
InitTamper ==
    /\ runs = 1
    /\ hist = <<>>
    /\ tamperedAt = -1
    /\ input \in {Plain(k) : k \in 0..MaxInner}
    /\ FreshRun

NextTamper == RunStep \/ Tamper

SpecTamper == InitTamper /\ [][NextTamper]_vars

\* ---------------------------------------------------------------- the library called directly
\* A caller of the library, as the unit tests are: it builds a DobyCipher and
\* either calls decrypt_chunk again and again on a reader over a ciphertext
\* stream, or calls encrypt with a writer that takes a limited number of
\* bytes (a slice), with no carry-over.
LibParams == [some |-> TRUE, salt |-> Salt(10), t_cost |-> 1, m_cost |-> 8,
              parallelism |-> 1, cipher |-> 0]
\* a stream of distinct bytes
Stream(k) == [i \in 1..k |-> i]
\* length of the buffer given to decrypt_chunk
ChunkBlock == 130
\* counts the reader returns to the calls of decrypt_chunk
ChunkReads == {0, 1, 2, 64, 66}
\* room of the writer given to encrypt: unlimited, less than the header,
\* less than a container
RoomChoices == {-1, 50, 80, 100}

\* one call of decrypt_chunk(reader, buff) by the caller, who collects
\* buff[..n]; buff[..buffer_len] panics when the look-behind buffer is longer
\* than buff
DecryptChunk ==
    /\ pc = "chunks"
    /\ IF Len(cipher.buffer) > args.block_size
       THEN /\ \E code \in PanicCodes : Exit(code)
            /\ UNCHANGED <<rpos, cipher, out>>
       ELSE \E k \in ChunkReads :
               /\ k <= Min(args.block_size - Len(cipher.buffer), Len(input) - rpos)
               /\ LET r == decrypt_chunk(cipher, Avail(k)) IN
                  /\ rpos' = rpos + k
                  /\ cipher' = r.cipher
                  /\ out' = out \o r.bytes
               /\ UNCHANGED <<pc, exitCode>>
    /\ UNCHANGED <<runs, hist, room, keybufs, tamperedAt, input, splitSeen, parsed, args, magic_bytes, n,
                   params, password, outTouched, branch, kdfCalls, verified>>

InitLib ==
    /\ runs = 1
    /\ hist = <<>>
    /\ tamperedAt = -1
    /\ rpos = 0
    /\ splitSeen = FALSE
    /\ parsed = "none"
    /\ magic_bytes = Zeros(Len(MAGIC_BYTES))
    /\ n = 0
    /\ params = LibParams
    /\ password = [some |-> TRUE, value |-> 0, entered |-> 1]
    /\ cipher = DobyCipherNew(1, LibParams)
    /\ keybufs = NoKeys
    /\ kdfCalls = 1
    /\ out = <<>>
    /\ outTouched = FALSE
    /\ verified = "none"
    /\ exitCode = -1
    /\ \/ /\ pc = "chunks"
          /\ branch = "decrypt"
          /\ input = Stream(MaxStream)
          /\ args = [NoArgs EXCEPT !.block_size = ChunkBlock]
          /\ room = -1
       \/ /\ pc = "encrypt"
          /\ branch = "encrypt"
          /\ input \in {Plain(k) : k \in 0..MaxLen}
          /\ \E bs \in {HASH_LEN + 1, 400} : args = [NoArgs EXCEPT !.block_size = bs]
          /\ room \in RoomChoices

NextLib == DecryptChunk \/ EncryptStart \/ EncryptLoop \/ WriteHmac

SpecLib == InitLib /\ [][NextLib]_vars

\* ================================================================ claims
\* the run before the current one
Prev == hist[runs - 1]
\* the current run is a decrypt that ran to its verification
Decrypted == pc = "done" /\ branch = "decrypt" /\ verified # "none"
\* the current run is an encrypt that returned Ok
Encrypted == pc = "done" /\ branch = "encrypt" /\ exitCode = 0

ContainerLayout113 ==
    (Encrypted /\ args.block_size > HASH_LEN)
    => (/\ Len(out) = Len(input) + 113
        /\ SubSeq(out, 1, 4) = MAGIC_BYTES
        /\ SubSeq(out, 5, 68) = params.salt
        /\ SubSeq(out, 69, 72) = to_be_bytes(params.t_cost)
        /\ SubSeq(out, 73, 76) = to_be_bytes(params.m_cost)
        /\ SubSeq(out, 77, 80) = to_be_bytes(params.parallelism)
        /\ out[81] = params.cipher
        /\ out[81] \in {0, 1})

\* C3: Authenticator coverage.  A container with one byte at an offset >= 4
\* replaced, given to the tool with the right password, never ends with
\* verified = true: a decrypt that was keyed ends with verified = false, and
\* the run exits 1.
AuthCoverage ==
    (pc = "done" /\ tamperedAt >= 4)
    => (/\ verified # "true"
        /\ cipher # NoCipher => (branch = "decrypt" /\ verified = "false")
        /\ parsed = "args" => exitCode = 1)

\* the first ciphertext byte of a one-byte payload was replaced and a decrypt
\* with a legal block size rejected the container
AuthCoverageWitness ==
    /\ pc = "done"
    /\ tamperedAt = 4 + LEN
    /\ Len(hist[1].input) = 1
    /\ args.block_size > HASH_LEN
    /\ verified = "false"

\* the ciphertext bytes of a container, between header and tag
Payload(c) == SubSeq(c, Len(MAGIC_BYTES) + LEN + 1, Len(c) - HASH_LEN)
\* the header of the current input as EncryptionParams::read would parse it
InputHeader == ParamsRead(SubSeq(input, Len(MAGIC_BYTES) + 1, Len(MAGIC_BYTES) + LEN))
HasHeader == Len(input) >= Len(MAGIC_BYTES) + LEN /\ SubSeq(input, 1, 4) = MAGIC_BYTES

\* C4: Mode selector, encrypt branch.  With -f, or when the first four bytes
\* are not "DOBY", or with fewer than four bytes of input, the run takes the
\* encrypt branch, and the payload of the container it writes is the
\* encryption of the complete input.
CarryOverComplete ==
    /\ (/\ branch # "none"
        /\ (args.force_encrypt \/ Len(input) < 4 \/ SubSeq(input, 1, 4) # MAGIC_BYTES))
       => branch = "encrypt"
    /\ Encrypted
       => (/\ Len(out) = Len(MAGIC_BYTES) + LEN + Len(input) + HASH_LEN
           /\ apply_keystream([cipher EXCEPT !.pos = 0], Payload(out)) = input)

\* C5: Mode selector, recognition.  An input that starts with "DOBY" and whose
\* header parses, given without -f, takes the decrypt branch however the
\* reader splits it.
RecognisedContainerDecrypts ==
    (/\ parsed = "args"
     /\ ~args.force_encrypt
     /\ HasHeader
     /\ InputHeader.some)
    => branch # "encrypt"

\* C6 (as stated): a container whose byte 0 was changed, given without -f,
\* makes the run exit 1 without a call of the KDF and without output.
CorruptMagicRejected ==
    (pc = "done" /\ tamperedAt = 0 /\ parsed = "args")
    => (exitCode = 1 /\ kdfCalls = 0 /\ out = <<>>)

\* C6 (amended): a container whose byte 0 was changed, given without -f, is
\* treated as plaintext: the run takes the encrypt branch, never parses the
\* header or decrypts, and when it exits 0 it has called the KDF once and
\* written a new container.
CorruptMagicEncrypts ==
    (tamperedAt = 0 /\ branch # "none")
    => (/\ branch = "encrypt"
        /\ verified = "none"
        /\ (pc = "done" /\ exitCode = 0)
             => (kdfCalls = 1 /\ SubSeq(out, 1, 4) = MAGIC_BYTES
                 /\ Len(out) >= Len(MAGIC_BYTES) + LEN + HASH_LEN))

\* the corrupted container was encrypted again and the run exited 0
CorruptMagicWitness ==
    /\ tamperedAt = 0
    /\ pc = "done"
    /\ exitCode = 0
    /\ kdfCalls = 1
    /\ branch = "encrypt"

\* C7: Header not recognized.  With matching magic bytes and no -f, a header
\* with a cipher id outside {0, 1} or a cost tuple the KDF rejects makes
\* EncryptionParams::read return None, and the run exits 1 without KDF,
\* decryption or output.
HeaderNotRecognized ==
    (/\ pc = "done" /\ branch = "decrypt"
     /\ HasHeader
     /\ LET b == SubSeq(input, Len(MAGIC_BYTES) + 1, Len(MAGIC_BYTES) + LEN) IN
        \/ ~CipherFromByte(b[SALT_LEN + 10])
        \/ ~ArgonParamsOk(from_be_bytes(SubSeq(b, SALT_LEN + 1, SALT_LEN + 4)),
                          from_be_bytes(SubSeq(b, SALT_LEN + 5, SALT_LEN + 8)),
                          b[SALT_LEN + 9]))
    => (/\ ~params.some
        /\ exitCode = 1
        /\ kdfCalls = 0
        /\ verified = "none"
        /\ ~outTouched
        /\ out = <<>>)

\* the encrypt pipeline of the finished run returned Ok: the tag is written
EncryptReturnedOk ==
    /\ pc = "done" /\ branch = "encrypt"
    /\ Len(out) >= Len(MAGIC_BYTES) + LEN + HASH_LEN
    /\ kdfCalls = 1
    /\ SubSeq(out, Len(out) - HASH_LEN + 1, Len(out)) = Tag(cipher.akey, cipher.data)

\* C8: Exit code.  The process exits 0 exactly when encrypt returned success,
\* decrypt returned verified = true, or an overwrite prompt was declined; in
\* every other run it exits 1.
ExitCodeZeroOrOne ==
    pc = "done"
    => exitCode = (IF parsed = "exited" \/ EncryptReturnedOk \/ verified = "true" THEN 0 ELSE 1)

\* C9: Chunk size validation.  Neither pipeline is ever started with a block
\* size that is not larger than the tag length.
ChunkSizeValidated ==
    pc \in {"encrypt", "encLoop", "writeHmac", "decLoop", "verify"}
    => args.block_size > HASH_LEN

\* C10: No output on early failure.  A run that fails before a pipeline
\* starts never creates, truncates or writes the output sink.
NoOutputOnEarlyFailure ==
    (pc = "done" /\ exitCode # 0 /\ kdfCalls = 0)
    => (~outTouched /\ out = <<>>)

\* C11: Chunk independence.  With a block size of 64 or more, whatever the
\* block size, the split of the input into reads and the carry-over prefix,
\* a successful encrypt writes the keystream of key and nonce applied to the
\* whole plaintext from offset 0, and the tag of header and ciphertext.
ChunkIndependence ==
    (Encrypted /\ args.block_size >= 64)
    => LET ct == apply_keystream([cipher EXCEPT !.pos = 0], input) IN
       out = MAGIC_BYTES \o ParamsWrite(params) \o ct
               \o Tag(cipher.akey, ParamsWrite(params) \o ct)

\* a container was encrypted again in three chunks of 64 bytes
ChunkIndependenceWitness ==
    /\ Encrypted
    /\ runs = 2
    /\ args.block_size = 64
    /\ Len(input) > 128

\* C12: Parameters codec round-trip.  EncryptionParams::read on the bytes
\* that write emitted for p returns Some(p) - the same salt, costs and
\* cipher - and consumes exactly EncryptionParams::LEN bytes, so that the
\* reader stands at the first ciphertext byte.
ParamsCodecRoundTrip ==
    (runs > 1 /\ tamperedAt = -1 /\ branch = "decrypt" /\ pc # "readHeader")
    => (/\ params.some
        /\ params = Prev.params
        /\ pc = "getPassword" => rpos = Len(MAGIC_BYTES) + LEN)

\* the header of a container made with memory cost 4096 (two non-zero
\* positions of the big-endian encoding matter) and cipher id 1 was read back
ParamsCodecWitness ==
    /\ runs > 1
    /\ branch = "decrypt"
    /\ pc = "getPassword"
    /\ Prev.params.m_cost = 4096
    /\ Prev.params.cipher = 1
    /\ params = Prev.params

\* C13: Decrypt loop ends only at upstream EOF.  With a block size above the
\* tag length and however the reader splits the stream, when decrypt leaves
\* its loop every input byte has been consumed and is either confirmed
\* payload or one of the residual bytes compared with the tag.
DecryptEndsAtEof ==
    (/\ branch = "decrypt"
     /\ args.block_size > HASH_LEN
     /\ pc = "verify" \/ (pc = "done" /\ verified # "none"))
    => (/\ rpos = Len(input)
        /\ Len(out) + Len(cipher.buffer) = Len(input) - Len(MAGIC_BYTES) - LEN)

\* C14: Look-behind buffer invariant.  After decrypt_chunk calls that have
\* consumed k bytes of the stream in reads of any sizes, the buffer holds
\* exactly the last min(k, HASH_LEN) bytes, and the bytes confirmed so far -
\* authenticated after the header, deciphered and handed back - are exactly
\* the first max(0, k - HASH_LEN) bytes, each once and in order.
LookBehindBuffer ==
    pc = "chunks"
    => LET k == rpos
           confirmed == SubSeq(input, 1, IF k > HASH_LEN THEN k - HASH_LEN ELSE 0)
       IN
       /\ cipher.buffer = SubSeq(input, k - Min(k, HASH_LEN) + 1, k)
       /\ cipher.data = ParamsWrite(params) \o confirmed
       /\ out = apply_keystream([cipher EXCEPT !.pos = 0], confirmed)

\* C15: Encrypt conserves the payload.  When encrypt returns success, the
\* ciphertext between header and tag has as many bytes as the input
\* (carry-over and everything the reader holds up to EOF), and the reader has
\* been read to its end.
EncryptConservesPayload ==
    Encrypted
    => (/\ Len(out) - Len(MAGIC_BYTES) - LEN - HASH_LEN = Len(input)
        /\ cipher.pos = Len(input)
        /\ rpos = Len(input))

\* the ciphertext bytes a keyed cipher has processed so far, taken from `c`
Processed(c) == SubSeq(c, Len(MAGIC_BYTES) + LEN + 1, Len(MAGIC_BYTES) + LEN + cipher.pos)

\* encrypt absorbs the header and then the ciphertext it writes
EncryptAbsorbsWritten ==
    (branch = "encrypt" /\ cipher # NoCipher)
    => cipher.data = ParamsWrite(params)
                       \o (IF Len(out) > Len(MAGIC_BYTES) + LEN THEN Processed(out) ELSE <<>>)

\* decrypt absorbs the header and then the ciphertext it confirmed, and
\* writes that ciphertext deciphered
DecryptAbsorbsConfirmed ==
    (branch = "decrypt" /\ cipher # NoCipher)
    => (/\ cipher.data = ParamsWrite(params) \o Processed(input)
        /\ out = apply_keystream([cipher EXCEPT !.pos = 0], Processed(input)))

SecretHygiene ==
    pc = "done"
    => (/\ password.value = 0
        /\ keybufs.master_key = 0
        /\ keybufs.encryption_key = 0
        /\ keybufs.authentication_key = 0)

\* C18: Success implies a complete container.  Whenever encrypt returns Ok,
\* the writer has taken the magic bytes, the whole header, every ciphertext
\* byte and all HASH_LEN bytes of the tag; a writer that takes fewer bytes
\* than offered makes encrypt return an error.
CompleteContainer ==
    (branch = "encrypt" /\ pc = "done" /\ exitCode = 0)
    => out = MAGIC_BYTES \o cipher.data \o Tag(cipher.akey, cipher.data)

====
